---- MODULE Spec2Model ----
(***************************************************************************)
(* The asynchronous job-processing pipeline of doc_processor:              *)
(*   - the relational rows (documents, processing_jobs, job_results),      *)
(*   - the Celery queue that carries extract_data_task deliveries,         *)
(*   - the workers executing extract_data_task step by step, and           *)
(*   - the REST handlers create_job, cancel_job and retry_job.             *)
(***************************************************************************)
EXTENDS Integers, Sequences, FiniteSets, Bags, TLC

VARIABLES
    documents,    \* documents table: document id -> row
    jobs,         \* processing_jobs table: job id -> row (only existing rows)
    next_job_id,  \* the id the next ProcessingJob row gets (ids are never reused)
    results,      \* job_results table, rows in insertion order
    queue,        \* bag of task messages waiting in the broker
    task_state,   \* Celery's state of the task enqueued for each job
    retry_log,    \* per task, the countdowns handed to self.retry so far
    workers,      \* per worker, the frame of the delivery it is executing
    redelivered,  \* number of deliveries that were handed out twice so far
    retried,      \* ids of the jobs for which retry_job was accepted
    storage,      \* the MinIO bucket: storage key -> stored bytes
    next_document_id,  \* the id the next Document row gets
    uploads       \* per client, the frame of its upload_file request

\* What only the upload and delete handlers of routes/upload.py write.
upload_vars == <<storage, next_document_id, uploads>>

vars == <<documents, jobs, next_job_id, results, queue, task_state, retry_log, workers,
          redelivered, retried, storage, next_document_id, uploads>>

---------------------------------------------------------------------------
(* Bounds of the model *)

\* Job rows ever created.
MaxJobs == 2
\* Worker processes of the pool.
NumWorkers == 2
\* Message chains the broker ever carries: one per enqueued task, one more
\* per delivery that is handed out a second time.
MaxChains == 2

\* Clients that send upload requests at the same time.
NumClients == 2
\* Document rows ever created.
MaxDocs == 3

JobIds == 1..MaxJobs
Workers == 1..NumWorkers
Clients == 1..NumClients

---------------------------------------------------------------------------
(* Program constants *)

\* @shared_task(bind=True, max_retries=3, ...)
TaskMaxRetries == 3
\* countdown = 2 ** self.request.retries * 60
BackoffBase == 60
\* max_retries = Column(Integer, default=3)
JobDefaultMaxRetries == 3

VALID_JOB_TYPES ==
    {"extract_data", "convert_to_pdf", "convert_to_excel", "convert_to_csv",
     "ocr_document"}

None == "None"

\* The options dictionary of a request: keys to values.  A request without
\* "options", or with "options": null, reaches the job row as the empty dict.
EmptyOptions == [k \in {} |-> ""]

\* valid_languages = ['eng', 'fra', 'spa', 'deu']
ValidLanguages == {"eng", "fra", "spa", "deu"}
\* if len(sheet_name) > 31:  # Excel limit
SheetNameLimit == 31

\* validate_job_type: raises ValidationError unless the type is a valid one.
validate_job_type(job_type) == job_type \in VALID_JOB_TYPES

\* validate_job_options: ok = FALSE is ValidationError; otherwise options is
\* the returned dict (for ocr_document with the default language filled in).
validate_job_options(job_type, options) ==
    IF job_type = "ocr_document"
    THEN LET with_default ==
                 IF "language" \in DOMAIN options THEN options
                 ELSE options @@ [language |-> "eng"]
         IN [ok |-> with_default.language \in ValidLanguages,
             options |-> with_default]
    ELSE IF job_type = "convert_to_excel"
    THEN [ok |-> ("sheet_name" \in DOMAIN options
                    => Len(options.sheet_name) <= SheetNameLimit),
          options |-> options]
    ELSE [ok |-> TRUE, options |-> options]

\* The POST /jobs bodies clients send in the pipeline: accepted ones
\* (extract_data, ocr_document with the default language) and rejected ones
\* (unknown type, unsupported OCR language, sheet name over the limit).
JobRequests ==
    { [job_type |-> "extract_data", options |-> EmptyOptions],
      [job_type |-> "ocr_document", options |-> EmptyOptions],
      [job_type |-> "ocr_document", options |-> [language |-> "tlh"]],
      [job_type |-> "convert_to_excel",
       options |-> [sheet_name |-> "a-sheet-name-of-32-characters-xx"]],
      [job_type |-> "bogus", options |-> EmptyOptions] }

---------------------------------------------------------------------------
(* Documents and extractors *)

DocIds == {1}
\* Document ids a client sends: the stored document and an unknown one.
DocIdInputs == {1, 2}

\* The sub-units of a multi-part file, by what the library does with each:
\* a PDF page has text, has a table, has neither, or makes pdfplumber raise;
\* a sheet has rows, is empty, or makes pandas raise.
PageKinds == {"text", "table", "blank", "error"}
SheetKinds == {"data", "empty", "error"}

\* The body of a file: one the library opens, with its sub-units in order,
\* and one it cannot open.
Readable(units) == [opens |-> TRUE, units |-> units]
Unreadable == [opens |-> FALSE, units |-> <<>>]

\* The positions of the sub-units of the given kinds, in order.
UnitsOf(units, kinds) ==
    SelectSeq([i \in 1..Len(units) |-> i], LAMBDA i : units[i] \in kinds)

\* The bytes of a file: magic is the type python-magic detects in them, body
\* is what a parser finds in them, size is their length.
Bytes(magic, body, size) == [magic |-> magic, body |-> body, size |-> size]

\* An uploaded file: its name, split at the last dot, and its bytes.
File(stem, ext, bytes) == [filename |-> [stem |-> stem, ext |-> ext], bytes |-> bytes]

\* calculate_file_hash: SHA256 over the bytes; equal exactly for equal bytes.
calculate_file_hash(file) == <<"sha256", file.bytes>>

\* Document(original_filename=..., file_size=..., mime_type=...,
\* storage_key=..., checksum=...)
NewDocumentRow(file, storage_key) ==
    [original_filename |-> file.filename,
     file_size         |-> file.bytes.size,
     mime_type         |-> file.bytes.magic,
     storage_key       |-> storage_key,
     checksum          |-> calculate_file_hash(file)]

\* The files that uploads have stored before the jobs are submitted.
DocumentFixtures ==
    { File("report", "pdf", Bytes("application/pdf", Readable(<<"text">>), 1)),
      File("broken", "pdf", Bytes("application/pdf", Unreadable, 1)),
      File("scan", "png", Bytes("image/png", Readable(<<"blank">>), 1)) }

\* extract_from_pdf: both page loops run inside one try, so a page that makes
\* extract_text or extract_tables raise ends the extraction with an error, as
\* does a file pdfplumber cannot open. Otherwise extracted_text is produced
\* when some page has text, extracted_tables when some page has a table, and
\* document_metadata (the page count) always.
extract_from_pdf(content) ==
    LET pages  == content.units
        texts  == UnitsOf(pages, {"text"})
        tables == UnitsOf(pages, {"table"})
    IN  IF content.opens /\ \A i \in 1..Len(pages) : pages[i] # "error"
        THEN [ok |-> TRUE,
              items |->
                  (IF texts # <<>> THEN << <<"extracted_text", texts>> >> ELSE <<>>)
                  \o (IF tables # <<>> THEN << <<"extracted_tables", tables>> >> ELSE <<>>)
                  \o << <<"document_metadata", <<Len(pages)>> >> >>]
        ELSE [ok |-> FALSE, items |-> <<>>]

\* extract_from_csv: extracted_tables (document_metadata only with numeric
\* columns, which the fixtures have not); undecodable input raises.
extract_from_csv(content) ==
    IF content.opens
    THEN [ok |-> TRUE, items |-> << <<"extracted_tables", <<1>> >> >>]
    ELSE [ok |-> FALSE, items |-> <<>>]

\* extract_from_excel: a sheet that is empty or that raises is skipped; with
\* at least one sheet of data it returns extracted_tables (those sheets) and
\* document_metadata (the sheet count), with none it raises, as it does for
\* a file pandas cannot open.
extract_from_excel(content) ==
    LET sheets == content.units
        all_tables == UnitsOf(sheets, {"data"})
    IN  IF content.opens /\ all_tables # <<>>
        THEN [ok |-> TRUE,
              items |-> << <<"extracted_tables", all_tables>>,
                           <<"document_metadata", <<Len(sheets)>> >> >>]
        ELSE [ok |-> FALSE, items |-> <<>>]

PdfMimes == {"application/pdf"}
CsvMimes == {"text/csv", "text/plain"}
ExcelMimes == {"application/vnd.openxmlformats-officedocument.spreadsheetml.sheet",
               "application/vnd.ms-excel"}

\* The if/elif chain of extract_data_task that picks the extractor.
RouteSupported(mime) == mime \in PdfMimes \cup CsvMimes \cup ExcelMimes

Route(mime, content) ==
    IF mime \in PdfMimes THEN extract_from_pdf(content)
    ELSE IF mime \in CsvMimes THEN extract_from_csv(content)
    ELSE extract_from_excel(content)

---------------------------------------------------------------------------
(* Rows *)

NewJobRow(document_id, job_type, options) ==
    [document_id    |-> document_id,
     job_type       |-> job_type,
     options        |-> options,
     status         |-> "queued",
     celery_task_id |-> 0,
     started_at     |-> 0,
     completed_at   |-> 0,
     retry_count    |-> 0,
     max_retries    |-> JobDefaultMaxRetries,
     error_message  |-> None]

\* Timestamps: 0 is NULL; every datetime.utcnow() stamp of a field is a
\* later instant than the previous one of that field, written as +1.
Stamp(t) == t + 1

\* A JSONB column: SQL NULL, or the document it holds.
JsonNull == <<>>
Json(data) == <<data>>

\* JobResult(...) that also names a file in object storage.
NewResultRowWithFile(job_id, result_type, result_data) ==
    [job_id |-> job_id, result_type |-> result_type,
     result_data |-> Json(result_data), output_file_key |-> "results/output"]

\* JobResult(job_id=.., result_type=.., result_data=..): the columns the
\* constructor is not given, output_file_key among them, stay NULL.
NewResultRow(job_id, result_type, result_data) ==
    [job_id |-> job_id, result_type |-> result_type,
     result_data |-> Json(result_data), output_file_key |-> None]

\* JobResult.query.filter_by(job_id=.., result_type=..): the matching rows.
ResultRows(job_id, result_type) ==
    { i \in DOMAIN results :
        results[i].job_id = job_id /\ results[i].result_type = result_type }

\* The table without its unique constraint: no INSERT is refused for it.
NoUniqueConstraint(job_id, result_type) == FALSE

\* UniqueConstraint('job_id', 'result_type'): an INSERT of a second row with
\* the same pair is refused by the database.
UniqueViolated(job_id, result_type) == ResultRows(job_id, result_type) # {}

\* The table without its foreign key: an INSERT for a missing job goes in.
NoForeignKey(job_id) == FALSE

\* ForeignKey('processing_jobs.id'): an INSERT for a missing job is refused.
ForeignKeyViolated(job_id) == job_id \notin DOMAIN jobs

---------------------------------------------------------------------------
(* Worker frames *)

\* Tasks enqueued so far (a task keeps a state from .delay() on).
TasksSent == Cardinality({j \in JobIds : task_state[j] # "NONE"})

\* Whether the broker may start one more chain of messages.
ChainAvailable == TasksSent + redelivered < MaxChains

\* The columns of the document a delivery holds after `job.document`.
NoDocumentLoaded == [storage_key |-> 0, mime_type |-> None]

IdleFrame ==
    [pc |-> "idle", task |-> 0, job_id |-> 0, retries |-> 0,
     extracted |-> <<>>, idx |-> 0, exc |-> None, read_count |-> 0,
     direct |-> FALSE, loaded |-> NoDocumentLoaded]

Message(task, job_id, retries, countdown) ==
    [task |-> task, job_id |-> job_id, retries |-> retries, countdown |-> countdown]

---------------------------------------------------------------------------
(* Initial state: the documents are stored, no job was submitted yet. *)

\* Idle frame of a client of upload_file.
IdleUpload ==
    [pc |-> "idle", file |-> File("", "", Bytes("", Unreadable, 0)), status |-> 0,
     document |-> 0]

\* The tables and the bucket after `file` was uploaded as document 1.
Stored(file) ==
    /\ documents = (1 :> NewDocumentRow(file, 1))
    /\ storage = (1 :> file.bytes)
    /\ next_document_id = 2
    /\ uploads = [c \in Clients |-> IdleUpload]

Init ==
    /\ \E file \in DocumentFixtures : Stored(file)
    /\ jobs = [j \in {} |-> NewJobRow(0, None, EmptyOptions)]
    /\ next_job_id = 1
    /\ results = <<>>
    /\ queue = EmptyBag
    /\ task_state = [j \in JobIds |-> "NONE"]
    /\ retry_log = [j \in JobIds |-> <<>>]
    /\ workers = [w \in Workers |-> IdleFrame]
    /\ redelivered = 0
    /\ retried = {}

---------------------------------------------------------------------------
(* REST handlers (routes/jobs.py) *)
(* Each handler reads the rows, decides its response from what it read and *)
(* commits a change only on the success path.  X_status is the response    *)
(* code of handler X in the current state; a rejected request leaves every *)
(* row as it was.                                                          *)

\* create_job without its validation of job type and options.
CreateStatusNoValidation(document_id, job_type, options) ==
    IF document_id = 0 \/ job_type = "" THEN 400
    ELSE IF document_id \notin DOMAIN documents THEN 404
    ELSE 201

\* POST /jobs: 400 missing document_id or job_type, 404 unknown document,
\* 400 invalid job type or options, else 201.
create_job_status(document_id, job_type, options) ==
    IF document_id = 0 THEN 400
    ELSE IF job_type = "" THEN 400
    ELSE IF document_id \notin DOMAIN documents THEN 404
    ELSE IF ~validate_job_type(job_type) THEN 400
    ELSE IF ~validate_job_options(job_type, options).ok THEN 400
    ELSE 201

\* POST /jobs.  broker_ok = FALSE is extract_data_task.delay raising, which
\* the handler logs and swallows: the row stays, no message is sent.
create_job(document_id, job_type, options, broker_ok) ==
    IF create_job_status(document_id, job_type, options) # 201
    THEN UNCHANGED vars
    ELSE LET id == next_job_id
             sent == job_type = "extract_data" /\ broker_ok
             validated_options == validate_job_options(job_type, options).options
             row == [NewJobRow(document_id, job_type, validated_options) EXCEPT
                       !.celery_task_id = IF sent THEN id ELSE 0]
         IN /\ id \in JobIds
            /\ sent => ChainAvailable
            /\ jobs' = jobs @@ (id :> row)
            /\ next_job_id' = id + 1
            /\ queue' = IF sent THEN queue (+) SetToBag({Message(id, id, 0, 0)})
                        ELSE queue
            /\ task_state' = IF sent THEN [task_state EXCEPT ![id] = "PENDING"]
                             ELSE task_state
            /\ UNCHANGED <<documents, results, retry_log, workers, redelivered, retried, upload_vars>>

\* cancel_job without its check for failed jobs.
CancelStatusNoFailedCheck(job_id) ==
    IF job_id \in DOMAIN jobs /\ jobs[job_id].status = "completed" THEN 400
    ELSE IF job_id \in DOMAIN jobs THEN 200
    ELSE 404

\* DELETE /jobs/<job_id>: 404 unknown job, 400 completed or failed, else 200.
cancel_job_status(job_id) ==
    IF job_id \notin DOMAIN jobs THEN 404
    ELSE IF jobs[job_id].status = "completed" THEN 400
    ELSE IF jobs[job_id].status = "failed" THEN 400
    ELSE 200

\* DELETE /jobs/<job_id>
cancel_job(job_id) ==
    IF cancel_job_status(job_id) # 200
    THEN UNCHANGED vars
    ELSE /\ jobs' = [jobs EXCEPT ![job_id].status = "cancelled"]
         /\ UNCHANGED <<documents, next_job_id, results, queue, task_state, retry_log,
                        workers, redelivered, retried, upload_vars>>

\* GET /jobs/<job_id>/results: 404 for an unknown job, 400 unless the job is
\* completed, else 200 with the metadata of its results.
get_job_results_status(job_id) ==
    IF job_id \notin DOMAIN jobs THEN 404
    ELSE IF jobs[job_id].status # "completed" THEN 400
    ELSE 200

\* GET /jobs/<job_id>/results/<result_type>: 404 for an unknown job or a
\* missing row; otherwise the row is served (200), as a download URL when
\* it has a file key and as its data when it has data.  The status of the
\* job is not read.
get_job_result_by_type_status(job_id, result_type) ==
    IF job_id \notin DOMAIN jobs THEN 404
    ELSE IF ResultRows(job_id, result_type) = {} THEN 404
    ELSE LET result == results[CHOOSE i \in ResultRows(job_id, result_type) : TRUE] IN
         IF result.output_file_key # None THEN 200
         ELSE IF result.result_data # JsonNull THEN 200
         ELSE 500

\* POST /jobs/<job_id>/retry: 404 unknown job, 400 unless failed, else 201.
retry_job_status(job_id) ==
    IF job_id \notin DOMAIN jobs THEN 404
    ELSE IF jobs[job_id].status # "failed" THEN 400
    ELSE 201

\* retry_job that builds the new job without the options of the old one.
RetryJobDropsOptions(job_id) ==
    IF retry_job_status(job_id) # 201
    THEN UNCHANGED vars
    ELSE /\ next_job_id \in JobIds
         /\ jobs' = jobs @@ (next_job_id :> NewJobRow(jobs[job_id].document_id,
                                                       jobs[job_id].job_type,
                                                       EmptyOptions))
         /\ next_job_id' = next_job_id + 1
         /\ retried' = retried \cup {job_id}
         /\ UNCHANGED <<documents, results, queue, task_state, retry_log,
                        workers, redelivered, upload_vars>>

\* POST /jobs/<job_id>/retry: a new queued row; nothing is sent to Celery.
retry_job(job_id) ==
    IF retry_job_status(job_id) # 201
    THEN UNCHANGED vars
    ELSE /\ next_job_id \in JobIds
         /\ jobs' = jobs @@ (next_job_id :> NewJobRow(jobs[job_id].document_id,
                                                       jobs[job_id].job_type,
                                                       jobs[job_id].options))
         /\ next_job_id' = next_job_id + 1
         /\ retried' = retried \cup {job_id}
         /\ UNCHANGED <<documents, results, queue, task_state, retry_log,
                        workers, redelivered, upload_vars>>

---------------------------------------------------------------------------
(* REST handlers (routes/upload.py) *)

\* DELETE /documents/<document_id>: 404 unknown document, else 200.
delete_document_status(document_id) ==
    IF document_id \notin DOMAIN documents THEN 404 ELSE 200

\* DELETE /documents/<document_id>: db.session.delete(document) removes the
\* row and, by cascade='all, delete-orphan', the jobs of the document and
\* the results of those jobs; then the blob is removed from storage.
\* blob_ok = FALSE is delete_file raising: the handler logs it and still
\* answers 200, the blob stays in the bucket.
delete_document(document_id, blob_ok) ==
    IF delete_document_status(document_id) # 200
    THEN UNCHANGED vars
    ELSE LET kept == {j \in DOMAIN jobs : jobs[j].document_id # document_id}
             storage_key == documents[document_id].storage_key
         IN /\ documents' = [d \in DOMAIN documents \ {document_id} |-> documents[d]]
            /\ jobs' = [j \in kept |-> jobs[j]]
            /\ results' = SelectSeq(results, LAMBDA r : r.job_id \in kept)
            /\ storage' = IF blob_ok
                          THEN [k \in DOMAIN storage \ {storage_key} |-> storage[k]]
                          ELSE storage
            /\ UNCHANGED <<next_job_id, queue, task_state, retry_log, workers,
                           redelivered, retried, next_document_id, uploads>>

---------------------------------------------------------------------------
(* The broker: at-least-once delivery *)

\* The pool hands message m to its first idle worker w.  Normally the message
\* leaves the queue; with again = TRUE it stays and is delivered once more.
Deliver(w, m, again) ==
    /\ workers[w].pc = "idle"
    /\ \A v \in Workers : v < w => workers[v].pc # "idle"
    /\ BagIn(m, queue)
    /\ IF again
       THEN /\ ChainAvailable
            /\ redelivered' = redelivered + 1
            /\ UNCHANGED queue
       ELSE /\ queue' = queue (-) SetToBag({m})
            /\ UNCHANGED redelivered
    /\ workers' = [workers EXCEPT ![w] =
                     [IdleFrame EXCEPT !.pc = "start", !.task = m.task,
                                       !.job_id = m.job_id, !.retries = m.retries]]
    /\ UNCHANGED <<documents, jobs, next_job_id, results, task_state, retry_log, retried, upload_vars>>

---------------------------------------------------------------------------
(* extract_data_task, one action per step between two commits *)

Raise(w, exc) ==
    workers' = [workers EXCEPT ![w].pc = "except_db", ![w].exc = exc]

\* A start of the task that leaves its writes pending in the session and
\* goes on to the download without committing them.
TaskStartUncommitted(w) ==
    LET f == workers[w] IN
    /\ f.pc = "start"
    /\ IF f.job_id \notin DOMAIN jobs
       THEN Raise(w, "Job not found")
       ELSE workers' = [workers EXCEPT ![w].pc = "extract"]
    /\ UNCHANGED <<documents, jobs, next_job_id, results, queue, task_state,
                   retry_log, redelivered, retried, upload_vars>>

\* 1. Get job and update status to processing
TaskStart(w) ==
    LET f == workers[w] IN
    /\ f.pc = "start"
    /\ IF f.job_id \notin DOMAIN jobs
       THEN /\ Raise(w, "Job not found")
            /\ UNCHANGED jobs
       ELSE /\ jobs' = [jobs EXCEPT
                          ![f.job_id].status = "processing",
                          ![f.job_id].started_at = Stamp(@),
                          ![f.job_id].celery_task_id = f.task]
            /\ workers' = [workers EXCEPT ![w].pc = "extract"]
    /\ UNCHANGED <<documents, next_job_id, results, queue, task_state, retry_log,
                   redelivered, retried, upload_vars>>

\* A loop over the results that stops after its first item.
AfterSaveFirstOnly(f) ==
    IF f.idx < 1 /\ f.idx < Len(f.extracted)
    THEN [f EXCEPT !.pc = "save_check", !.idx = f.idx + 1]
    ELSE IF f.direct THEN [f EXCEPT !.pc = "returned"]
    ELSE [f EXCEPT !.pc = "complete"]

\* The pc a frame continues at once item idx of its extracted results is done.
AfterSave(f) ==
    IF f.idx < Len(f.extracted)
    THEN [f EXCEPT !.pc = "save_check", !.idx = f.idx + 1]
    ELSE IF f.direct THEN [f EXCEPT !.pc = "returned"]
    ELSE [f EXCEPT !.pc = "complete"]

\* 2. Download file from MinIO and 3. route to the extractor by MIME type.
\* storage_ok = FALSE is download_file raising for a reason of the storage
\* service; it also raises when the key is not in the bucket.  The document
\* row and the blob are read here; the extraction itself works on the worker's copy.
\* job.document reloads the job row, which the commit has expired: a row
\* deleted in the meantime raises ObjectDeletedError.
TaskExtract(w, storage_ok) ==
    LET f == workers[w]
        doc == documents[jobs[f.job_id].document_id]
        out == Route(doc.mime_type, storage[doc.storage_key].body)
    IN
    /\ f.pc = "extract"
    /\ IF f.job_id \notin DOMAIN jobs
       THEN Raise(w, "ObjectDeletedError")
       ELSE IF ~storage_ok \/ doc.storage_key \notin DOMAIN storage
       THEN Raise(w, "Failed to download file")
       ELSE IF ~RouteSupported(doc.mime_type)
       THEN Raise(w, "Unsupported file type")
       ELSE IF ~out.ok
       THEN Raise(w, "extraction failed")
       ELSE workers' = [workers EXCEPT ![w] =
                          AfterSave([f EXCEPT !.extracted = out.items, !.idx = 0])]
    /\ UNCHANGED <<documents, jobs, next_job_id, results, queue, task_state,
                   retry_log, redelivered, retried, upload_vars>>

\* _save_result that overwrites the stored data of an existing row instead
\* of skipping it.
SaveCheckOverwrite(w) ==
    LET f == workers[w]
        item == f.extracted[f.idx]
        rows == ResultRows(f.job_id, item[1])
    IN
    /\ f.pc = "save_check"
    /\ IF rows # {}
       THEN /\ workers' = [workers EXCEPT ![w] = AfterSave(f)]
            /\ results' = [i \in DOMAIN results |->
                             IF i \in rows
                             THEN [results[i] EXCEPT !.result_data = Json(item[2])]
                             ELSE results[i]]
       ELSE /\ workers' = [workers EXCEPT ![w].pc = "save_insert"]
            /\ UNCHANGED results
    /\ UNCHANGED <<documents, jobs, next_job_id, queue, task_state, retry_log,
                   redelivered, retried, upload_vars>>

\* _save_result, first half: the SELECT that looks for an existing row.
SaveCheck(w) ==
    LET f == workers[w]
        item == f.extracted[f.idx]
    IN
    /\ f.pc = "save_check"
    /\ IF ResultRows(f.job_id, item[1]) # {}
       THEN workers' = [workers EXCEPT ![w] = AfterSave(f)]
       ELSE workers' = [workers EXCEPT ![w].pc = "save_insert"]
    /\ UNCHANGED <<documents, jobs, next_job_id, results, queue, task_state,
                   retry_log, redelivered, retried, upload_vars>>

\* _save_result, second half: db.session.add(result); db.session.commit().
\* A refused INSERT is an SQLAlchemyError: rollback and re-raise.
SaveInsert(w) ==
    LET f == workers[w]
        item == f.extracted[f.idx]
    IN
    /\ f.pc = "save_insert"
    /\ IF UniqueViolated(f.job_id, item[1]) \/ ForeignKeyViolated(f.job_id)
       THEN /\ IF f.direct
               THEN workers' = [workers EXCEPT ![w] =
                                  [f EXCEPT !.pc = "returned",
                                            !.exc = "IntegrityError"]]
               ELSE Raise(w, "IntegrityError")
            /\ UNCHANGED results
       ELSE /\ results' = Append(results, NewResultRow(f.job_id, item[1], item[2]))
            /\ workers' = [workers EXCEPT ![w] = AfterSave(f)]
    /\ UNCHANGED <<documents, jobs, next_job_id, queue, task_state, retry_log,
                   redelivered, retried, upload_vars>>

\* A completion that marks every job of the document completed, not only
\* the job of the delivery.
TaskCompleteWholeDocument(w) ==
    LET f == workers[w] IN
    /\ f.pc = "complete"
    /\ IF f.job_id \notin DOMAIN jobs
       THEN /\ Raise(w, "NoneType has no attribute status")
            /\ UNCHANGED <<jobs, task_state>>
       ELSE /\ jobs' = [j \in DOMAIN jobs |->
                          IF jobs[j].document_id = jobs[f.job_id].document_id
                          THEN [jobs[j] EXCEPT !.status = "completed",
                                               !.completed_at = Stamp(@)]
                          ELSE jobs[j]]
            /\ task_state' = [task_state EXCEPT ![f.task] = "SUCCESS"]
            /\ workers' = [workers EXCEPT ![w] = IdleFrame]
    /\ UNCHANGED <<documents, next_job_id, results, queue, retry_log, redelivered,
                    retried, upload_vars>>

\* 5. Mark job as completed (refetch, set, commit); the task returns.
TaskComplete(w) ==
    LET f == workers[w] IN
    /\ f.pc = "complete"
    /\ IF f.job_id \notin DOMAIN jobs
       THEN /\ Raise(w, "NoneType has no attribute status")
            /\ UNCHANGED <<jobs, task_state>>
       ELSE /\ jobs' = [jobs EXCEPT
                          ![f.job_id].status = "completed",
                          ![f.job_id].completed_at = Stamp(@)]
            /\ task_state' = [task_state EXCEPT ![f.task] = "SUCCESS"]
            /\ workers' = [workers EXCEPT ![w] = IdleFrame]
    /\ UNCHANGED <<documents, next_job_id, results, queue, retry_log, redelivered,
                    retried, upload_vars>>

\* job.status = 'failed'; job.error_message = str(e); job.retry_count += 1
\* on the row as it was loaded: the counter written is the loaded one plus 1.
RecordFailure(job_id, exc, loaded_count) ==
    [jobs EXCEPT ![job_id].status = "failed",
                 ![job_id].error_message = exc,
                 ![job_id].retry_count = loaded_count + 1]

\* except Exception: rollback, refetch, record the failure, commit, with no
\* other transaction committing between the refetch and the commit.
TaskExceptDb(w) ==
    LET f == workers[w] IN
    /\ f.pc = "except_db"
    /\ IF f.job_id \in DOMAIN jobs
       THEN jobs' = RecordFailure(f.job_id, f.exc, jobs[f.job_id].retry_count)
       ELSE UNCHANGED jobs
    /\ workers' = [workers EXCEPT ![w].pc = "except_retry"]
    /\ UNCHANGED <<documents, next_job_id, results, queue, task_state, retry_log,
                   redelivered, retried, upload_vars>>

\* except Exception, first half: rollback and refetch.  The row that
\* ProcessingJob.query.get loads carries the retry_count of this moment; a
\* missing row skips the update.
TaskExceptRefetch(w) ==
    LET f == workers[w] IN
    /\ f.pc = "except_db"
    /\ IF f.job_id \in DOMAIN jobs
       THEN workers' = [workers EXCEPT
                          ![w].pc = "except_commit",
                          ![w].read_count = jobs[f.job_id].retry_count]
       ELSE workers' = [workers EXCEPT ![w].pc = "except_retry"]
    /\ UNCHANGED <<documents, jobs, next_job_id, results, queue, task_state,
                   retry_log, redelivered, retried, upload_vars>>

\* except Exception, second half: record the failure on the loaded row and
\* commit.  An UPDATE that finds its row deleted raises, which the inner
\* except logs and drops.
TaskExceptCommit(w) ==
    LET f == workers[w] IN
    /\ f.pc = "except_commit"
    /\ IF f.job_id \in DOMAIN jobs
       THEN jobs' = RecordFailure(f.job_id, f.exc, f.read_count)
       ELSE UNCHANGED jobs
    /\ workers' = [workers EXCEPT ![w].pc = "except_retry"]
    /\ UNCHANGED <<documents, next_job_id, results, queue, task_state, retry_log,
                   redelivered, retried, upload_vars>>

\* A backoff that grows linearly instead of doubling.
CountdownLinear(retries) == (retries + 1) * BackoffBase

\* countdown = 2 ** self.request.retries * 60
Countdown(retries) == (2 ^ retries) * BackoffBase

\* if self.request.retries < self.max_retries
RetriesRemaining(retries) == retries < TaskMaxRetries

\* A retry decision that treats an unsupported file type as final at once.
TaskExceptRetryUnsupportedFinal(w) ==
    LET f == workers[w] IN
    /\ f.pc = "except_retry"
    /\ IF RetriesRemaining(f.retries) /\ f.exc # "Unsupported file type"
       THEN /\ queue' = queue (+) SetToBag({Message(f.task, f.job_id, f.retries + 1,
                                                    Countdown(f.retries))})
            /\ retry_log' = [retry_log EXCEPT ![f.task] =
                               Append(@, Countdown(f.retries))]
            /\ task_state' = [task_state EXCEPT ![f.task] = "RETRY"]
       ELSE /\ task_state' = [task_state EXCEPT ![f.task] = "FAILURE"]
            /\ UNCHANGED <<queue, retry_log>>
    /\ workers' = [workers EXCEPT ![w] = IdleFrame]
    /\ UNCHANGED <<documents, jobs, next_job_id, results, redelivered, retried, upload_vars>>

\* A retry that enqueues the delivery again with the attempt counter as it
\* was.
TaskExceptRetrySameAttempt(w) ==
    LET f == workers[w] IN
    /\ f.pc = "except_retry"
    /\ IF RetriesRemaining(f.retries)
       THEN /\ queue' = queue (+) SetToBag({Message(f.task, f.job_id, f.retries,
                                                    Countdown(f.retries))})
            /\ retry_log' = [retry_log EXCEPT ![f.task] =
                               IF Len(@) < TaskMaxRetries
                               THEN Append(@, Countdown(f.retries)) ELSE @]
            /\ task_state' = [task_state EXCEPT ![f.task] = "RETRY"]
       ELSE /\ task_state' = [task_state EXCEPT ![f.task] = "FAILURE"]
            /\ UNCHANGED <<queue, retry_log>>
    /\ workers' = [workers EXCEPT ![w] = IdleFrame]
    /\ UNCHANGED <<documents, jobs, next_job_id, results, redelivered, retried, upload_vars>>

\* Retry with exponential backoff if retries remaining, else re-raise.
TaskExceptRetry(w) ==
    LET f == workers[w] IN
    /\ f.pc = "except_retry"
    /\ IF RetriesRemaining(f.retries)
       THEN /\ queue' = queue (+) SetToBag({Message(f.task, f.job_id, f.retries + 1,
                                                    Countdown(f.retries))})
            /\ retry_log' = [retry_log EXCEPT ![f.task] =
                               Append(@, Countdown(f.retries))]
            /\ task_state' = [task_state EXCEPT ![f.task] = "RETRY"]
       ELSE /\ task_state' = [task_state EXCEPT ![f.task] = "FAILURE"]
            /\ UNCHANGED <<queue, retry_log>>
    /\ workers' = [workers EXCEPT ![w] = IdleFrame]
    /\ UNCHANGED <<documents, jobs, next_job_id, results, redelivered, retried, upload_vars>>

---------------------------------------------------------------------------
(* The pipeline *)

\* Whether extract_data_task.delay succeeds; only extract_data jobs call it.
BrokerOutcomes(job_type) ==
    IF job_type = "extract_data" THEN BOOLEAN ELSE {TRUE}

\* The pipeline explores delete_document with the blob removed: its rows are
\* gone either way, and a blob left behind is explored by SpecUpload.
Next ==
    \/ \E d \in DocIdInputs, r \in JobRequests :
          \E b \in BrokerOutcomes(r.job_type) :
             create_job(d, r.job_type, r.options, b)
    \/ \E j \in JobIds : cancel_job(j)
    \/ \E j \in JobIds : retry_job(j)
    \/ \E d \in DocIdInputs : delete_document(d, TRUE)
    \/ \E w \in Workers, m \in BagToSet(queue), a \in BOOLEAN : Deliver(w, m, a)
    \/ \E w \in Workers : TaskStart(w)
    \/ \E w \in Workers, ok \in BOOLEAN : TaskExtract(w, ok)
    \/ \E w \in Workers : SaveCheck(w)
    \/ \E w \in Workers : SaveInsert(w)
    \/ \E w \in Workers : TaskComplete(w)
    \/ \E w \in Workers : TaskExceptDb(w)
    \/ \E w \in Workers : TaskExceptRetry(w)

Spec == Init /\ [][Next]_vars

---------------------------------------------------------------------------
(* The pipeline with worker processes that can die *)

\* A crash that takes the results the dying delivery had saved with it, as
\* if they had been part of one uncommitted transaction.
WorkerCrashDropsResults(w) ==
    /\ workers[w].pc # "idle"
    /\ workers' = [workers EXCEPT ![w] = IdleFrame]
    /\ results' = SelectSeq(results, LAMBDA r : r.job_id # workers[w].job_id)
    /\ UNCHANGED <<documents, jobs, next_job_id, queue, task_state,
                   retry_log, redelivered, retried, upload_vars>>

\* The worker process dies in the middle of a delivery: what it had not
\* committed is lost, the committed rows stay, and the message, acknowledged
\* when it was received, is not delivered again on its account.
WorkerCrash(w) ==
    /\ workers[w].pc # "idle"
    /\ workers' = [workers EXCEPT ![w] = IdleFrame]
    /\ UNCHANGED <<documents, jobs, next_job_id, results, queue, task_state,
                   retry_log, redelivered, retried, upload_vars>>

NextCrash ==
    \/ Next
    \/ \E w \in Workers : WorkerCrash(w)

SpecCrash == Init /\ [][NextCrash]_vars

---------------------------------------------------------------------------
(* Overlapping deliveries of one job, with the except handler's refetch and *)
(* commit as the two database round trips they are                          *)

\* create_job has stored job 1 and sent its task; no worker has started.
OverlapInit ==
    /\ \E file \in DocumentFixtures : Stored(file)
    /\ jobs = (1 :> [NewJobRow(1, "extract_data", EmptyOptions) EXCEPT
                       !.celery_task_id = 1])
    /\ next_job_id = 2
    /\ results = <<>>
    /\ queue = SetToBag({Message(1, 1, 0, 0)})
    /\ task_state = [j \in JobIds |-> IF j = 1 THEN "PENDING" ELSE "NONE"]
    /\ retry_log = [j \in JobIds |-> <<>>]
    /\ workers = [w \in Workers |-> IdleFrame]
    /\ redelivered = 0
    /\ retried = {}

OverlapNext ==
    \/ \E w \in Workers, m \in BagToSet(queue), a \in BOOLEAN : Deliver(w, m, a)
    \/ \E w \in Workers : TaskStart(w)
    \/ \E w \in Workers, ok \in BOOLEAN : TaskExtract(w, ok)
    \/ \E w \in Workers : SaveCheck(w)
    \/ \E w \in Workers : SaveInsert(w)
    \/ \E w \in Workers : TaskComplete(w)
    \/ \E w \in Workers : TaskExceptRefetch(w)
    \/ \E w \in Workers : TaskExceptCommit(w)
    \/ \E w \in Workers : TaskExceptRetry(w)

SpecOverlap == OverlapInit /\ [][OverlapNext]_vars

---------------------------------------------------------------------------
(* _save_result on its own: one caller that calls it again and again *)

SaveKinds == {"extracted_text"}
SaveData == {"d1", "d2", "d3"}

\* Rows of jobs that a delivery has started, before any result is saved.
SaveInit ==
    /\ Stored(File("report", "pdf", Bytes("application/pdf", Readable(<<"text">>), 1)))
    /\ jobs = [j \in JobIds |->
                 [NewJobRow(1, "extract_data", EmptyOptions) EXCEPT
                    !.status = "processing", !.started_at = Stamp(0),
                    !.celery_task_id = j]]
    /\ next_job_id = MaxJobs + 1
    /\ results = <<>>
    /\ queue = EmptyBag
    /\ task_state = [j \in JobIds |-> "PENDING"]
    /\ retry_log = [j \in JobIds |-> <<>>]
    /\ workers = [w \in Workers |-> IdleFrame]
    /\ redelivered = 0
    /\ retried = {}

\* _save_result(job_id, result_type, result_data) is entered by caller w.
CallSave(w, job_id, result_type, result_data) ==
    /\ workers[w].pc \in {"idle", "returned"}
    /\ workers' = [workers EXCEPT ![w] =
                     [IdleFrame EXCEPT
                        !.pc = "save_check", !.job_id = job_id,
                        !.extracted = << <<result_type, result_data>> >>,
                        !.idx = 1, !.direct = TRUE]]
    /\ UNCHANGED <<documents, jobs, next_job_id, results, queue, task_state,
                   retry_log, redelivered, retried, upload_vars>>

SaveNext ==
    \/ \E j \in JobIds, k \in SaveKinds, d \in SaveData : CallSave(1, j, k, d)
    \/ SaveCheck(1)
    \/ SaveInsert(1)

SpecSave == SaveInit /\ [][SaveNext]_vars

---------------------------------------------------------------------------
(* The REST handlers on their own: requests against one job in some state *)

\* States the pipeline leaves job 1 (extract_data on document 1) in: the
\* row, the state of its task, its stored results and its pending messages.
RestFixtures ==
    LET row == NewJobRow(1, "extract_data", EmptyOptions)
        with_options == NewJobRow(1, "extract_data", [ocr_language |-> "eng"])
        both == << NewResultRow(1, "extracted_text", <<1>>),
                   NewResultRow(1, "document_metadata", <<1>>) >>
    IN
    { \* queued, task sent
      [row |-> [row EXCEPT !.celery_task_id = 1],
       task |-> "PENDING", results |-> <<>>,
       queue |-> SetToBag({Message(1, 1, 0, 0)})],
      \* queued, the broker refused the task
      [row |-> with_options, task |-> "NONE", results |-> <<>>, queue |-> EmptyBag],
      \* cancelled while queued
      [row |-> [row EXCEPT !.celery_task_id = 1, !.status = "cancelled"],
       task |-> "PENDING", results |-> <<>>,
       queue |-> SetToBag({Message(1, 1, 0, 0)})],
      \* processing: a delivery has started and stored nothing yet
      [row |-> [row EXCEPT !.celery_task_id = 1, !.status = "processing",
                           !.started_at = Stamp(0)],
       task |-> "PENDING", results |-> <<>>, queue |-> EmptyBag],
      \* completed with its results
      [row |-> [row EXCEPT !.celery_task_id = 1, !.status = "completed",
                           !.started_at = Stamp(0), !.completed_at = Stamp(0)],
       task |-> "SUCCESS", results |-> both, queue |-> EmptyBag],
      \* failed on every attempt, retries exhausted
      [row |-> [with_options EXCEPT !.celery_task_id = 1, !.status = "failed",
                                    !.started_at = Stamp(Stamp(Stamp(Stamp(0)))),
                                    !.retry_count = TaskMaxRetries + 1,
                                    !.error_message = "Failed to download file"],
       task |-> "FAILURE", results |-> <<>>, queue |-> EmptyBag],
      \* failed once after a duplicate delivery stored the results; the
      \* first automatic retry is scheduled
      [row |-> [row EXCEPT !.celery_task_id = 1, !.status = "failed",
                           !.started_at = Stamp(Stamp(0)),
                           !.completed_at = Stamp(0),
                           !.retry_count = 1,
                           !.error_message = "IntegrityError"],
       task |-> "RETRY", results |-> both,
       queue |-> SetToBag({Message(1, 1, 1, Countdown(0))})] }

RestInit ==
    \E fx \in RestFixtures :
        /\ Stored(File("report", "pdf", Bytes("application/pdf", Readable(<<"text">>), 1)))
        /\ jobs = (1 :> fx.row)
        /\ next_job_id = 2
        /\ results = fx.results
        /\ queue = fx.queue
        /\ task_state = [j \in JobIds |-> IF j = 1 THEN fx.task ELSE "NONE"]
        /\ retry_log = [j \in JobIds |->
                          IF j = 1 /\ fx.task = "RETRY" THEN <<Countdown(0)>>
                          ELSE IF j = 1 /\ fx.task = "FAILURE"
                          THEN <<Countdown(0), Countdown(1), Countdown(2)>>
                          ELSE <<>>]
        /\ workers = [w \in Workers |-> IdleFrame]
        /\ redelivered = IF fx.task = "RETRY" THEN 1 ELSE 0
        /\ retried = {}

\* The POST /jobs bodies sent here: those of the pipeline and accepted ones
\* that carry options.
RestRequests ==
    JobRequests \cup
    { [job_type |-> "extract_data", options |-> [ocr_language |-> "eng"]],
      [job_type |-> "ocr_document", options |-> [language |-> "fra"]],
      [job_type |-> "convert_to_excel", options |-> [sheet_name |-> "Sheet1"]] }

RestNext ==
    \/ \E j \in JobIds : retry_job(j)
    \/ \E j \in JobIds : cancel_job(j)
    \/ \E d \in DocIdInputs, r \in RestRequests :
          \E b \in BrokerOutcomes(r.job_type) :
             create_job(d, r.job_type, r.options, b)
    \/ \E d \in DocIdInputs, blob_ok \in BOOLEAN : delete_document(d, blob_ok)

SpecRest == RestInit /\ [][RestNext]_vars

---------------------------------------------------------------------------
(* Uploads: POST /upload (routes/upload.py), step by step *)

\* MAX_FILE_SIZE = int(50 * 1024 * 1024)
MAX_FILE_SIZE == 52428800

\* ALLOWED_EXTENSIONS default 'pdf,docx,xlsx,csv,jpg,png'
ALLOWED_EXTENSIONS == {"pdf", "docx", "xlsx", "csv", "jpg", "png"}

\* MIME_TYPE_MAP of _is_mime_type_valid
MIME_TYPE_MAP ==
    [e \in {"pdf", "docx", "xlsx", "csv", "jpg", "jpeg", "png"} |->
        CASE e = "pdf"  -> {"application/pdf"}
          [] e = "docx" -> {"application/vnd.openxmlformats-officedocument.wordprocessingml.document",
                            "application/zip"}
          [] e = "xlsx" -> {"application/vnd.openxmlformats-officedocument.spreadsheetml.sheet",
                            "application/zip"}
          [] e = "csv"  -> {"text/csv", "text/plain", "application/csv"}
          [] e = "png"  -> {"image/png"}
          [] OTHER      -> {"image/jpeg"}]

\* _is_mime_type_valid: an extension that is not in the map is accepted.
is_mime_type_valid(mime_type, extension) ==
    IF extension \notin DOMAIN MIME_TYPE_MAP
    THEN TRUE
    ELSE mime_type \in MIME_TYPE_MAP[extension]

\* get_file_extension: the part after the last dot, lower-cased.
get_file_extension(filename) ==
    IF filename.ext = "PDF" THEN "pdf" ELSE filename.ext

\* validate_file: TRUE when no ValidationError is raised.  Checks in the
\* order of the code: file name, size, extension, detected MIME type.
validate_file(file) ==
    LET extension == get_file_extension(file.filename) IN
    /\ file.filename # [stem |-> "", ext |-> ""]
    /\ file.bytes.size # 0
    /\ file.bytes.size <= MAX_FILE_SIZE
    /\ extension # ""
    /\ extension \in ALLOWED_EXTENSIONS
    /\ is_mime_type_valid(file.bytes.magic, extension)

\* Document.query.filter_by(checksum=file_hash): ids of the matching rows.
ByChecksum(file_hash) ==
    {d \in DOMAIN documents : documents[d].checksum = file_hash}

\* The files clients upload.
UploadFiles ==
    { File("report", "pdf", Bytes("application/pdf", Readable(<<"text">>), 1)),
      File("copy", "PDF", Bytes("application/pdf", Readable(<<"text">>), 1)),
      File("report", "exe", Bytes("application/pdf", Readable(<<"text">>), 1)),
      File("scan", "png", Bytes("image/png", Readable(<<"blank">>), 1)),
      File("scan", "pdf", Bytes("image/png", Readable(<<"blank">>), 1)),
      File("empty", "pdf", Bytes("application/pdf", Readable(<<"text">>), 0)),
      File("huge", "pdf", Bytes("application/pdf", Readable(<<"text">>), MAX_FILE_SIZE + 1)) }

\* The frame of a request that has been answered.
Answered(file, status, document) ==
    [pc |-> "done", file |-> file, status |-> status, document |-> document]

\* upload_file that stores the file without looking for a row with the same
\* checksum.
UploadCheckNoDuplicateQuery(c, file) ==
    /\ uploads[c].pc = "idle"
    /\ uploads' = [uploads EXCEPT ![c] =
                      IF ~validate_file(file)
                      THEN Answered(file, 400, 0)
                      ELSE [pc |-> "store", file |-> file, status |-> 0, document |-> 0]]
    /\ UNCHANGED <<documents, jobs, next_job_id, results, queue, task_state,
                   retry_log, workers, redelivered, retried, storage,
                   next_document_id>>

\* upload_file, steps 1-4: validation (400 on ValidationError), hash, and
\* the duplicate query.  .first() carries no ORDER BY: with several matching
\* rows any of them is returned.  Nothing is written in this step.
UploadCheck(c, file) ==
    /\ uploads[c].pc = "idle"
    /\ IF ~validate_file(file)
       THEN uploads' = [uploads EXCEPT ![c] = Answered(file, 400, 0)]
       ELSE IF ByChecksum(calculate_file_hash(file)) # {}
       THEN \E d \in ByChecksum(calculate_file_hash(file)) :
               uploads' = [uploads EXCEPT ![c] = Answered(file, 200, d)]
       ELSE uploads' = [uploads EXCEPT ![c] =
                          [pc |-> "store", file |-> file, status |-> 0, document |-> 0]]
    /\ UNCHANGED <<documents, jobs, next_job_id, results, queue, task_state,
                   retry_log, workers, redelivered, retried, storage,
                   next_document_id>>

\* upload_file that commits the row although put_object raised.
UploadStoreKeepsRow(c, storage_ok) ==
    LET f == uploads[c]
        id == next_document_id
    IN
    /\ f.pc = "store"
    /\ next_document_id <= MaxDocs
    /\ documents' = (id :> NewDocumentRow(f.file, id)) @@ documents
    /\ storage' = IF storage_ok THEN (id :> f.file.bytes) @@ storage ELSE storage
    /\ next_document_id' = id + 1
    /\ uploads' = [uploads EXCEPT ![c] =
                     Answered(f.file, IF storage_ok THEN 201 ELSE 500, id)]
    /\ UNCHANGED <<jobs, next_job_id, results, queue, task_state, retry_log,
                   workers, redelivered, retried>>

\* upload_file, steps 5-9: the row is added and flushed, the blob is put
\* under a fresh storage key, then the row is committed (201).
\* storage_ok = FALSE is put_object raising: the session is rolled back, no
\* row and no blob remain, the answer is 500.  generate_storage_key draws a
\* fresh key per request; the model uses the id of the row as the key.
UploadStore(c, storage_ok) ==
    LET f == uploads[c]
        id == next_document_id
    IN
    /\ f.pc = "store"
    /\ next_document_id <= MaxDocs
    /\ IF storage_ok
       THEN /\ documents' = (id :> NewDocumentRow(f.file, id)) @@ documents
            /\ storage' = (id :> f.file.bytes) @@ storage
            /\ next_document_id' = id + 1
            /\ uploads' = [uploads EXCEPT ![c] = Answered(f.file, 201, id)]
       ELSE /\ uploads' = [uploads EXCEPT ![c] = Answered(f.file, 500, 0)]
            /\ UNCHANGED <<documents, storage, next_document_id>>
    /\ UNCHANGED <<jobs, next_job_id, results, queue, task_state, retry_log,
                   workers, redelivered, retried>>

\* The response has been sent; the client may send its next request.
UploadReturn(c) ==
    /\ uploads[c].pc = "done"
    /\ uploads' = [uploads EXCEPT ![c] = IdleUpload]
    /\ UNCHANGED <<documents, jobs, next_job_id, results, queue, task_state,
                   retry_log, workers, redelivered, retried, storage,
                   next_document_id>>

\* One document is stored, no job was submitted; clients upload and delete.
UploadInit == Init

UploadNext ==
    \/ \E c \in Clients, file \in UploadFiles : UploadCheck(c, file)
    \/ \E c \in Clients, ok \in BOOLEAN : UploadStore(c, ok)
    \/ \E c \in Clients : UploadReturn(c)
    \/ \E d \in 1..MaxDocs, blob_ok \in BOOLEAN : delete_document(d, blob_ok)

SpecUpload == UploadInit /\ [][UploadNext]_vars

---------------------------------------------------------------------------
(* The pipeline under fair scheduling: a worker that holds a delivery runs  *)
(* extract_data_task to its end, and the broker hands a waiting message to  *)
(* an idle worker.  Requests of clients come when they come.                *)

\* The next step of the delivery worker w is executing.
WorkerStep(w) ==
    \/ TaskStart(w)
    \/ \E ok \in BOOLEAN : TaskExtract(w, ok)
    \/ SaveCheck(w)
    \/ SaveInsert(w)
    \/ TaskComplete(w)
    \/ TaskExceptDb(w)
    \/ TaskExceptRetry(w)

\* The broker delivers a waiting message (and does not keep a copy of it).
Consume == \E w \in Workers, m \in BagToSet(queue) : Deliver(w, m, FALSE)

Fairness ==
    /\ WF_vars(Consume)
    /\ \A w \in Workers : WF_vars(WorkerStep(w))

\* The requests of the clients: an extract_data job and a job of a type that
\* has no task, each for the stored document; retry and cancellation.  The
\* broker delivers every message once here.
LiveRequests ==
    { r \in JobRequests :
        r.job_type \in {"extract_data", "ocr_document"} /\ r.options = EmptyOptions }

LiveNext ==
    \/ \E r \in LiveRequests :
          \E b \in BrokerOutcomes(r.job_type) :
             create_job(1, r.job_type, r.options, b)
    \/ \E j \in JobIds : cancel_job(j)
    \/ \E j \in JobIds : retry_job(j)
    \/ Consume
    \/ \E w \in Workers : WorkerStep(w)

SpecLive == Init /\ [][LiveNext]_vars /\ Fairness

---------------------------------------------------------------------------
(* One extract_data job over multi-part documents *)

\* The most sub-units (pages, sheets) a stored document has.
MaxParts == 2

SeqsUpTo(S, n) == UNION { [1..k -> S] : k \in 0..n }

\* PDF files and workbooks with every combination of sub-units, and one of
\* each that the library cannot open.
ExtractFixtures ==
    { File("report", "pdf", Bytes("application/pdf", Readable(pages), 1)) :
        pages \in SeqsUpTo(PageKinds, MaxParts) }
    \cup
    { File("book", "xlsx",
           Bytes("application/vnd.openxmlformats-officedocument.spreadsheetml.sheet",
                 Readable(sheets), 1)) :
        sheets \in SeqsUpTo(SheetKinds, MaxParts) }
    \cup
    { File("report", "pdf", Bytes("application/pdf", Unreadable, 1)),
      File("book", "xlsx",
           Bytes("application/vnd.openxmlformats-officedocument.spreadsheetml.sheet",
                 Unreadable, 1)) }

\* Job 1 on the stored document has been created and its message sent.
ExtractInit ==
    /\ \E file \in ExtractFixtures : Stored(file)
    /\ jobs = (1 :> [NewJobRow(1, "extract_data", EmptyOptions) EXCEPT
                       !.celery_task_id = 1])
    /\ next_job_id = 2
    /\ results = <<>>
    /\ queue = SetToBag({Message(1, 1, 0, 0)})
    /\ task_state = [j \in JobIds |-> IF j = 1 THEN "PENDING" ELSE "NONE"]
    /\ retry_log = [j \in JobIds |-> <<>>]
    /\ workers = [w \in Workers |-> IdleFrame]
    /\ redelivered = 0
    /\ retried = {}

ExtractNext ==
    \/ \E w \in Workers, m \in BagToSet(queue) : Deliver(w, m, FALSE)
    \/ \E w \in Workers : TaskStart(w)
    \/ \E w \in Workers, ok \in BOOLEAN : TaskExtract(w, ok)
    \/ \E w \in Workers : SaveCheck(w)
    \/ \E w \in Workers : SaveInsert(w)
    \/ \E w \in Workers : TaskComplete(w)
    \/ \E w \in Workers : TaskExceptDb(w)
    \/ \E w \in Workers : TaskExceptRetry(w)

SpecExtract == ExtractInit /\ [][ExtractNext]_vars

---------------------------------------------------------------------------
(* Rows and blobs: uploads, deletions and a delivery, step by step *)

\* 2. `document = job.document` and `document.storage_key`: after the commit
\* of step 1 the job is reloaded (ObjectDeletedError when its row is gone)
\* and the row of its document is read.
TaskLoadDocument(w) ==
    LET f == workers[w] IN
    /\ f.pc = "extract"
    /\ IF f.job_id \notin DOMAIN jobs
       THEN Raise(w, "ObjectDeletedError")
       ELSE LET doc == documents[jobs[f.job_id].document_id] IN
            workers' = [workers EXCEPT
                          ![w].pc = "download",
                          ![w].loaded = [storage_key |-> doc.storage_key,
                                         mime_type |-> doc.mime_type]]
    /\ UNCHANGED <<documents, jobs, next_job_id, results, queue, task_state,
                   retry_log, redelivered, retried, upload_vars>>

\* 2-3. storage_service.download_file(document.storage_key) with the key
\* read before, then the routing on the loaded mime_type and the extractor.
TaskDownload(w, storage_ok) ==
    LET f == workers[w]
        key == f.loaded.storage_key
        out == Route(f.loaded.mime_type, storage[key].body)
    IN
    /\ f.pc = "download"
    /\ IF ~storage_ok \/ key \notin DOMAIN storage
       THEN Raise(w, "Failed to download file")
       ELSE IF ~RouteSupported(f.loaded.mime_type)
       THEN Raise(w, "Unsupported file type")
       ELSE IF ~out.ok
       THEN Raise(w, "extraction failed")
       ELSE workers' = [workers EXCEPT ![w] =
                          AfterSave([f EXCEPT !.extracted = out.items, !.idx = 0])]
    /\ UNCHANGED <<documents, jobs, next_job_id, results, queue, task_state,
                   retry_log, redelivered, retried, upload_vars>>

\* delete_document up to its commit: the row, its jobs and their results
\* are deleted; the request goes on to the bucket with the key it read.
DeleteRow(c, document_id) ==
    LET kept == {j \in DOMAIN jobs : jobs[j].document_id # document_id} IN
    /\ uploads[c].pc = "idle"
    /\ delete_document_status(document_id) = 200
    /\ documents' = [d \in DOMAIN documents \ {document_id} |-> documents[d]]
    /\ jobs' = [j \in kept |-> jobs[j]]
    /\ results' = SelectSeq(results, LAMBDA r : r.job_id \in kept)
    /\ uploads' = [uploads EXCEPT ![c] =
                     [IdleUpload EXCEPT !.pc = "unlink",
                                        !.document = documents[document_id].storage_key]]
    /\ UNCHANGED <<next_job_id, queue, task_state, retry_log, workers,
                   redelivered, retried, storage, next_document_id>>

\* delete_document after its commit: storage_service.delete_file(storage_key);
\* a failure is printed and the answer is 200 all the same.
DeleteBlob(c, blob_ok) ==
    LET storage_key == uploads[c].document IN
    /\ uploads[c].pc = "unlink"
    /\ storage' = IF blob_ok
                  THEN [k \in DOMAIN storage \ {storage_key} |-> storage[k]]
                  ELSE storage
    /\ uploads' = [uploads EXCEPT ![c] = Answered(IdleUpload.file, 200, 0)]
    /\ UNCHANGED <<documents, jobs, next_job_id, results, queue, task_state,
                   retry_log, workers, redelivered, retried, next_document_id>>

\* The files the clients upload: the stored report again and a new sheet.
BlobFiles ==
    { File("report", "pdf", Bytes("application/pdf", Readable(<<"text">>), 1)),
      File("table", "csv", Bytes("text/csv", Readable(<<"data">>), 1)) }

\* A document is stored; job 1 on it has been created and its message sent.
BlobInit == OverlapInit

BlobNext ==
    \/ \E c \in Clients, file \in BlobFiles : UploadCheck(c, file)
    \/ \E c \in Clients, ok \in BOOLEAN : UploadStore(c, ok)
    \/ \E c \in Clients : UploadReturn(c)
    \/ \E c \in Clients, d \in 1..MaxDocs : DeleteRow(c, d)
    \/ \E c \in Clients, ok \in BOOLEAN : DeleteBlob(c, ok)
    \/ \E w \in Workers, m \in BagToSet(queue) : Deliver(w, m, FALSE)
    \/ \E w \in Workers : TaskStart(w)
    \/ \E w \in Workers : TaskLoadDocument(w)
    \/ \E w \in Workers, ok \in BOOLEAN : TaskDownload(w, ok)
    \/ \E w \in Workers : SaveCheck(w)
    \/ \E w \in Workers : SaveInsert(w)
    \/ \E w \in Workers : TaskComplete(w)
    \/ \E w \in Workers : TaskExceptDb(w)
    \/ \E w \in Workers : TaskExceptRetry(w)

SpecBlob == BlobInit /\ [][BlobNext]_vars

---------------------------------------------------------------------------
(* Claims *)

AllowedEdges ==
    { <<"queued", "processing">>, <<"processing", "completed">>,
      <<"processing", "failed">>, <<"queued", "cancelled">>,
      <<"processing", "cancelled">> }

\* C1: in every step, each change of a job's status is one of the allowed
\* edges queued -> processing, processing -> completed, processing -> failed,
\* queued -> cancelled, processing -> cancelled; in particular no job leaves
\* completed, failed or cancelled.
C1_StatusEdgesAllowed ==
    [][\A j \in DOMAIN jobs \cap DOMAIN jobs' :
          jobs'[j].status # jobs[j].status
             => <<jobs[j].status, jobs'[j].status>> \in AllowedEdges]_vars

\* C2: in every reachable state the job_results table holds at most one row
\* per (job_id, result_type).
C2_OneResultPerKind ==
    \A i, k \in DOMAIN results :
        (results[i].job_id = results[k].job_id
           /\ results[i].result_type = results[k].result_type) => i = k

\* Two overlapping deliveries of one job both passed the existence check for
\* the same result type; the second INSERT was refused.
C2_RefusedInsertReached ==
    \E w \in Workers :
        /\ workers[w].pc = "except_db"
        /\ workers[w].exc = "IntegrityError"
        /\ ResultRows(workers[w].job_id,
                      workers[w].extracted[workers[w].idx][1]) # {}

\* C3: a sequential call of _save_result for a (job_id, result_type) that
\* already has a row is a no-op: the table is left as it is (one row for the
\* pair, holding the data of the first call) and the call returns without an
\* error; no step ever rewrites a stored row.
C3_SecondSaveIsNoOp ==
    [][/\ \A i \in DOMAIN results :
             i \in DOMAIN results' /\ results'[i] = results[i]
       /\ \A w \in Workers :
             LET f == workers[w] IN
             (/\ f.pc = "save_check"
              /\ workers'[w] # f
              /\ ResultRows(f.job_id, f.extracted[f.idx][1]) # {})
             => /\ results' = results
                /\ Cardinality(ResultRows(f.job_id, f.extracted[f.idx][1])) = 1
                /\ workers'[w].pc = "returned"
                /\ workers'[w].exc = None]_vars

\* A second call with other data has returned normally and the row still
\* holds the data of the first call.
C3_SecondCallReturned ==
    \E w \in Workers :
        LET f == workers[w] IN
        /\ f.pc = "returned"
        /\ f.exc = None
        /\ \E i \in ResultRows(f.job_id, f.extracted[1][1]) :
              results[i].result_data # Json(f.extracted[1][2])

\* C4: retry_count of every job never decreases and never exceeds the job's
\* max_retries.
C4_RetryCountBounded ==
    /\ [](\A j \in DOMAIN jobs : jobs[j].retry_count <= jobs[j].max_retries)
    /\ [][\A j \in DOMAIN jobs \cap DOMAIN jobs' :
             jobs'[j].retry_count >= jobs[j].retry_count]_vars

FailedAtMax(j) ==
    jobs[j].status = "failed" /\ jobs[j].retry_count = jobs[j].max_retries

\* C5: once a job reads status = failed with retry_count = max_retries, no
\* step changes its row, schedules a further delivery of it or starts one.
C5_FailedAtMaxIsFinal ==
    [][\A j \in DOMAIN jobs \cap DOMAIN jobs' :
          FailedAtMax(j)
             => /\ jobs'[j] = jobs[j]
                /\ \A m \in BagToSet(queue') :
                      m.job_id = j => CopiesIn(m, queue') <= CopiesIn(m, queue)
                /\ \A w \in Workers :
                      (workers'[w].job_id = j /\ workers'[w].pc = "start")
                         => workers'[w] = workers[w]]_vars

IsPrefix(s, t) == Len(s) <= Len(t) /\ \A i \in 1..Len(s) : s[i] = t[i]

\* C6: the k-th automatic retry of a task is scheduled with a delay of
\* 60, 120, 240 seconds for k = 1, 2, 3 and there is no fourth retry: every
\* retry message carries the delay of its attempt, and a task whose
\* deliveries were not duplicated has scheduled exactly 60, 120, 240 when
\* its retries are exhausted.
C6_BackoffSequence ==
    /\ \A m \in BagToSet(queue) :
          /\ m.retries \in 0..3
          /\ m.retries >= 1 => m.countdown = <<60, 120, 240>>[m.retries]
    /\ redelivered = 0 =>
          \A t \in JobIds :
             /\ IsPrefix(retry_log[t], <<60, 120, 240>>)
             /\ task_state[t] = "FAILURE" => retry_log[t] = <<60, 120, 240>>

\* A task failed on each of its attempts and has used up its retries.
C6_RetriesExhausted ==
    \E t \in JobIds :
        /\ redelivered = 0
        /\ task_state[t] = "FAILURE"
        /\ retry_log[t] = <<60, 120, 240>>

\* The document of job j makes the extraction step raise on every attempt.
ExtractionAlwaysRaises(j) ==
    LET doc == documents[jobs[j].document_id] IN
    \/ ~RouteSupported(doc.mime_type)
    \/ ~Route(doc.mime_type, storage[doc.storage_key].body).ok

\* C7: a job whose extraction raises on every attempt ends, once the
\* automatic retries of its task are exhausted, with status = failed,
\* retry_count = 3 = max_retries and an error_message.
C7_ExhaustedJobFailedThree ==
    \A j \in DOMAIN jobs :
        (task_state[j] = "FAILURE" /\ redelivered = 0 /\ ExtractionAlwaysRaises(j))
           => /\ jobs[j].status = "failed"
              /\ jobs[j].retry_count = 3
              /\ jobs[j].retry_count = jobs[j].max_retries
              /\ jobs[j].error_message # None

\* C8: cancel_job on a completed or failed job answers with an error (400)
\* and changes no row: the job row and the results stay as they are.
C8_CancelTerminalRejected ==
    /\ [](\A j \in DOMAIN jobs :
             jobs[j].status \in {"completed", "failed"}
                => cancel_job_status(j) = 400)
    /\ [][\A j \in DOMAIN jobs :
             (jobs[j].status \in {"completed", "failed"} /\ cancel_job(j))
                => UNCHANGED vars]_vars

\* A completed job with its results and a failed job with its error exist,
\* and a cancel request for either is answered 400.
C8_TerminalJobsReached ==
    \E j, k \in DOMAIN jobs :
        /\ jobs[j].status = "completed"
        /\ \E i \in DOMAIN results : results[i].job_id = j
        /\ jobs[k].status = "failed"
        /\ jobs[k].error_message # None
        /\ cancel_job_status(j) = 400
        /\ cancel_job_status(k) = 400

\* C9: cancel_job on a queued or processing job sets status = cancelled and
\* changes nothing else, and a cancel_job on an already cancelled job is not
\* answered as a successful cancellation.
C9_CancelExactlyOnce ==
    /\ [](\A j \in DOMAIN jobs :
             jobs[j].status = "cancelled" => cancel_job_status(j) # 200)
    /\ [][\A j \in DOMAIN jobs :
             (jobs[j].status \in {"queued", "processing"} /\ cancel_job(j))
                => /\ jobs' = [jobs EXCEPT ![j].status = "cancelled"]
                   /\ UNCHANGED <<documents, next_job_id, results, queue,
                                  task_state, retry_log, workers, redelivered,
                                  retried, upload_vars>>]_vars

\* C10: once a job is cancelled, no step of extract_data_task changes its
\* status: a cancelled job never becomes processing, completed or failed.
C10_CancelledStaysCancelled ==
    [][\A j \in DOMAIN jobs \cap DOMAIN jobs' :
          jobs[j].status = "cancelled" => jobs'[j].status = "cancelled"]_vars

\* A request the claim C11 is about: unknown job type, options that fail
\* validate_job_options, or a document_id that matches no Document.
InvalidCreate(document_id, job_type, options) ==
    \/ job_type \notin VALID_JOB_TYPES
    \/ ~validate_job_options(job_type, options).ok
    \/ document_id \notin DOMAIN documents

\* C11: create_job with a job_type outside the valid set, with options that
\* fail validate_job_options, or with a document_id matching no Document is
\* answered with an error, and no step creates a job row or enqueues a first
\* delivery for such a request: every row that appears has a valid type,
\* valid options and an existing document, and every first delivery that
\* appears belongs to a row created in the same step.
C11_InvalidCreateRejected ==
    /\ [](\A d \in DocIdInputs, r \in JobRequests :
             InvalidCreate(d, r.job_type, r.options)
                => create_job_status(d, r.job_type, r.options) \in {400, 404})
    /\ [][/\ \A j \in DOMAIN jobs' \ DOMAIN jobs :
               /\ jobs'[j].job_type \in VALID_JOB_TYPES
               /\ validate_job_options(jobs'[j].job_type, jobs'[j].options).ok
               /\ jobs'[j].document_id \in DOMAIN documents
          /\ \A m \in BagToSet(queue') :
               (m.retries = 0 /\ ~BagIn(m, queue))
                  => /\ m.job_id \in DOMAIN jobs' \ DOMAIN jobs
                     /\ jobs'[m.job_id].job_type = "extract_data"]_vars

\* A job was accepted with a valid OCR language while the same request with
\* an unsupported language, one with an unknown type and one for an unknown
\* document are answered with an error.
C11_RejectedBesideAccepted ==
    /\ \E j \in DOMAIN jobs :
          jobs[j].job_type = "ocr_document" /\ jobs[j].options.language = "eng"
    /\ create_job_status(1, "ocr_document", [language |-> "tlh"]) = 400
    /\ create_job_status(1, "bogus", EmptyOptions) = 400
    /\ create_job_status(2, "extract_data", EmptyOptions) = 404

\* C12: a delivery of extract_data_task whose job has no row (deleted before
\* or during the delivery) terminates without scheduling a retry and without
\* creating or modifying a row: no step of such a delivery adds a message
\* for the job to the queue or changes the jobs or results tables.
C12_MissingJobNoRetry ==
    [][\A w \in Workers :
          LET f == workers[w] IN
          (f.pc # "idle" /\ f.job_id \notin DOMAIN jobs /\ workers'[w] # f)
             => /\ \A m \in BagToSet(queue') :
                      m.job_id = f.job_id => CopiesIn(m, queue') <= CopiesIn(m, queue)
                /\ jobs' = jobs
                /\ results' = results]_vars

\* C13: retry_job is accepted only for a failed job (any other status is
\* answered 400 and creates no row); when accepted it creates exactly one
\* new row with a fresh id, status = queued, retry_count = 0 and the
\* document_id, job_type and options of the old job, and it changes no
\* existing job row and no result.
C13_RetryCreatesFreshCopy ==
    /\ [](\A j \in DOMAIN jobs :
             jobs[j].status # "failed" => retry_job_status(j) = 400)
    /\ [][\A j \in DOMAIN jobs :
             retry_job(j)
                => IF jobs[j].status # "failed"
                   THEN UNCHANGED vars
                   ELSE LET created == DOMAIN jobs' \ DOMAIN jobs IN
                        /\ created = {next_job_id}
                        /\ \A n \in created :
                              /\ n > j
                              /\ jobs'[n].status = "queued"
                              /\ jobs'[n].retry_count = 0
                              /\ jobs'[n].document_id = jobs[j].document_id
                              /\ jobs'[n].job_type = jobs[j].job_type
                              /\ jobs'[n].options = jobs[j].options
                        /\ \A k \in DOMAIN jobs : jobs'[k] = jobs[k]
                        /\ results' = results
                        /\ queue' = queue]_vars

\* A failed job that carries options and has an untouched queued copy with a
\* later id, the same document, type and options and retry_count 0.
C13_RetriedCopyReached ==
    \E j, n \in DOMAIN jobs :
        /\ j < n
        /\ jobs[j].status = "failed"
        /\ jobs[j].options # EmptyOptions
        /\ jobs[n] = NewJobRow(jobs[j].document_id, jobs[j].job_type,
                               jobs[j].options)

\* C14: once retry_job has been accepted for a job, that job stays terminal:
\* in every later state its status is failed, and no delivery of it starts.
C14_RetriedJobStaysFailed ==
    /\ [](\A j \in retried \cap DOMAIN jobs : jobs[j].status = "failed")
    /\ [][\A w \in Workers :
             (workers[w].pc = "idle" /\ workers'[w].pc = "start")
                => workers'[w].job_id \notin retried]_vars

\* The result items the extractor produces for the document of job j.
Produced(j) ==
    LET doc == documents[jobs[j].document_id] IN
    Route(doc.mime_type, storage[doc.storage_key].body)

\* C15: a job reads completed only after its document was fetched, the
\* extractor returned successfully and every result kind it produced has a
\* stored row: in every state a completed job has a row for each produced
\* kind, and the step that sets completed is taken by a delivery that holds
\* the extractor's output and has gone through all of its items.
C15_CompletedHasAllResults ==
    /\ [](\A j \in DOMAIN jobs :
             jobs[j].status = "completed"
                => /\ RouteSupported(documents[jobs[j].document_id].mime_type)
                   /\ Produced(j).ok
                   /\ \A i \in 1..Len(Produced(j).items) :
                         ResultRows(j, Produced(j).items[i][1]) # {})
    /\ [][\A j \in DOMAIN jobs \cap DOMAIN jobs' :
             (jobs[j].status # "completed" /\ jobs'[j].status = "completed")
                => \E w \in Workers :
                      /\ workers[w].job_id = j
                      /\ workers[w].pc = "complete"
                      /\ workers[w].extracted = Produced(j).items
                      /\ workers[w].idx = Len(workers[w].extracted)]_vars

\* A job was completed and both result kinds of its PDF are stored.
C15_CompletedWithResults ==
    \E j \in DOMAIN jobs :
        /\ jobs[j].status = "completed"
        /\ jobs[j].completed_at > 0
        /\ ResultRows(j, "extracted_text") # {}
        /\ ResultRows(j, "document_metadata") # {}

\* The step of delivery w that commits status = processing with its stamps.
CommitsProcessing(w) ==
    LET j == workers[w].job_id IN
    /\ jobs'[j].status = "processing"
    /\ jobs'[j].started_at = Stamp(jobs[j].started_at)
    /\ jobs'[j].celery_task_id = workers[w].task

C17_FailureRecordedOnce ==
    /\ [](\A j \in DOMAIN jobs :
             task_state[j] \in {"RETRY", "FAILURE"}
                => jobs[j].error_message # None)
    /\ [][\A w \in Workers :
             LET f == workers[w]
                 j == f.job_id
             IN
             /\ (f.pc = "except_commit" /\ workers'[w] # f /\ j \in DOMAIN jobs)
                   => /\ jobs'[j].error_message = f.exc
                      /\ jobs'[j].error_message # None
                      /\ jobs'[j].retry_count = jobs[j].retry_count + 1
             /\ (/\ f.pc # "idle"
                 /\ workers'[w] # f
                 /\ retry_log'[f.task] # retry_log[f.task])
                   => /\ f.pc = "except_retry"
                      /\ j \in DOMAIN jobs => jobs[j].error_message # None]_vars

\* An error is pending for job j: a failed attempt of it has scheduled a
\* retry delivery that no worker has taken yet.
ErrorPending(j) ==
    \E m \in BagToSet(queue) : m.job_id = j /\ m.retries >= 1

\* C18: no job reads completed while an error is pending for it, also when
\* two deliveries of the job overlap.
C18_NoCompletedWhileErrorPending ==
    \A j \in DOMAIN jobs : jobs[j].status = "completed" => ~ErrorPending(j)

\* The document of job j has a MIME type with no extractor route.
Unsupported(j) == ~RouteSupported(documents[jobs[j].document_id].mime_type)

\* Failed attempts of job j so far, when its deliveries were not duplicated:
\* those that scheduled a retry, the last one that did not, and the one
\* whose handler has recorded the failure and not yet decided.
FailedAttempts(j) ==
    Len(retry_log[j])
      + (IF task_state[j] = "FAILURE" THEN 1 ELSE 0)
      + Cardinality({w \in Workers :
                       workers[w].job_id = j /\ workers[w].pc = "except_retry"})

\* C19: a job whose document has an unsupported MIME type goes through the
\* same failure path as every other extraction failure: it is never
\* completed, each failed attempt records the error and counts one on
\* retry_count, the retries are scheduled with the delays 60, 120, 240, and
\* its task fails for good only after those three retries, never on the
\* first attempt.
C19_UnsupportedLikeAnyFailure ==
    \A j \in DOMAIN jobs :
        Unsupported(j)
           => /\ jobs[j].status # "completed"
              /\ \A w \in Workers :
                    (workers[w].job_id = j
                       /\ workers[w].pc \in {"except_db", "except_retry"})
                       => workers[w].exc \in {"Unsupported file type",
                                              "Failed to download file"}
              /\ redelivered = 0
                    => /\ IsPrefix(retry_log[j], <<60, 120, 240>>)
                       /\ jobs[j].retry_count = FailedAttempts(j)
                       /\ jobs[j].retry_count > 0 => jobs[j].error_message # None
                       /\ task_state[j] = "FAILURE"
                             => /\ retry_log[j] = <<60, 120, 240>>
                                /\ jobs[j].status = "failed"

\* A job on a PNG document has failed for good with "Unsupported file type"
\* after the delays 60, 120, 240 and four counted attempts.
C19_UnsupportedExhausted ==
    \E j \in DOMAIN jobs :
        /\ Unsupported(j)
        /\ redelivered = 0
        /\ task_state[j] = "FAILURE"
        /\ retry_log[j] = <<60, 120, 240>>
        /\ jobs[j].error_message = "Unsupported file type"
        /\ jobs[j].retry_count = TaskMaxRetries + 1

---------------------------------------------------------------------------
\* C20: an upload_file request whose file passes validation and whose
\* checksum equals that of a Document stored when the duplicate query runs
\* is answered 200 with one of the stored rows of that checksum; the request
\* adds no Document row, writes no blob and leaves every stored row, the
\* returned one included, as it was.  A request with that content adds no row
\* and no blob in this step whether or not it passes validation.
C20_DuplicateUploadReturnsExisting ==
    [][\A c \in Clients :
          LET f == uploads'[c]
              same == ByChecksum(calculate_file_hash(f.file))
          IN /\ (uploads[c].pc = "idle" /\ f.pc # "idle" /\ same # {})
                   => /\ documents' = documents
                      /\ storage' = storage
                      /\ next_document_id' = next_document_id
                      /\ validate_file(f.file)
                           => /\ f.pc = "done"
                              /\ f.status = 200
                              /\ f.document \in same
                              /\ documents'[f.document] = documents[f.document]
             /\ (uploads[c].pc = "done" /\ uploads[c].status = 200 /\ f # uploads[c])
                   => /\ f = IdleUpload
                      /\ documents' = documents
                      /\ storage' = storage
                      /\ next_document_id' = next_document_id]_vars

\* A client that uploaded the stored bytes under another name holds the
\* answer 200 with the row that was stored before.
C20_DuplicateAnswered ==
    \E c \in Clients :
       LET f == uploads[c] IN
       /\ f.pc = "done"
       /\ f.status = 200
       /\ f.document \in DOMAIN documents
       /\ documents[f.document].checksum = calculate_file_hash(f.file)
       /\ documents[f.document].original_filename # f.file.filename
       /\ DOMAIN storage = {documents[d].storage_key : d \in DOMAIN documents}
       /\ Cardinality(DOMAIN documents) = 1

---------------------------------------------------------------------------
\* C21: every job row that reads status = queued eventually leaves that
\* status (it is handed to a worker, cancelled or deleted); no job stays
\* queued forever.
C21_QueuedJobLeavesQueued ==
    \A j \in JobIds :
       (j \in DOMAIN jobs /\ jobs[j].status = "queued")
          ~> (j \notin DOMAIN jobs \/ jobs[j].status # "queued")

---------------------------------------------------------------------------
\* A worker is executing a delivery of job j.
InFlight(j) == \E w \in Workers : workers[w].pc # "idle" /\ workers[w].job_id = j

\* A delivery of job j waits in the broker.
Pending(j) == \E m \in BagToSet(queue) : m.job_id = j

\* Job j has reached a terminal status and no delivery of it is left.
Settled(j) ==
    /\ j \in DOMAIN jobs
    /\ jobs[j].status \in {"completed", "failed", "cancelled"}
    /\ ~InFlight(j)
    /\ ~Pending(j)

\* C22: with workers that run their deliveries to the end and a broker that
\* delivers what waits, every job that a worker has started on reaches a
\* terminal status (completed, failed or cancelled) with no delivery of it
\* in flight or pending, unless its row is deleted; every message that is
\* enqueued after the first one of a task (which create_job sends) comes
\* from the retry of a failed delivery and is for the job and task of that
\* delivery with the attempt counter one higher; no delivery carries an attempt
\* counter above max_retries = 3, and a task whose deliveries were not
\* duplicated by the broker has scheduled at most 3 retries, that is, has
\* run at most 4 times.
C22_DeliveredJobSettles ==
    /\ \A j \in JobIds : InFlight(j) ~> (j \notin DOMAIN jobs \/ Settled(j))
    /\ [][\A m \in BagToSet(queue') :
             (CopiesIn(m, queue') > CopiesIn(m, queue)
                /\ (m.retries > 0 \/ next_job_id' = next_job_id))
                => \E w \in Workers :
                      /\ workers[w].pc = "except_retry"
                      /\ workers'[w].pc = "idle"
                      /\ m.job_id = workers[w].job_id
                      /\ m.task = workers[w].task
                      /\ m.retries = workers[w].retries + 1]_vars
    /\ [](/\ \A m \in BagToSet(queue) : m.retries \in 0..TaskMaxRetries
          /\ \A w \in Workers : workers[w].retries \in 0..TaskMaxRetries
          /\ redelivered = 0 =>
                \A t \in JobIds : Len(retry_log[t]) + 1 <= TaskMaxRetries + 1)

\* A job failed on each of the four executions of its task and is settled.
C22_SettledAfterFourRuns ==
    \E j \in DOMAIN jobs :
       /\ Settled(j)
       /\ jobs[j].status = "failed"
       /\ redelivered = 0
       /\ Len(retry_log[j]) = TaskMaxRetries
       /\ task_state[j] = "FAILURE"
       /\ \A k \in DOMAIN jobs : k = j

---------------------------------------------------------------------------
\* The rows of `results` whose job is in the set `kept`, in their order.
RowsOf(kept) == SelectSeq(results, LAMBDA r : r.job_id \in kept)

\* C23: a JobResult row is never changed after its creation.  Every step
\* leaves the table as it is, or appends one row for a (job, kind) that had
\* no row (so a later attempt adds only the missing kinds and leaves the
\* saved ones alone, whatever became of the attempt that saved them), or
\* removes exactly the rows of the jobs that are deleted with their document
\* in this step; the rows that stay keep their content and their order.
C23_ResultRowsImmutable ==
    [][\/ results' = results
       \/ /\ Len(results') = Len(results) + 1
          /\ SubSeq(results', 1, Len(results)) = results
          /\ LET row == results'[Len(results')] IN
                /\ ResultRows(row.job_id, row.result_type) = {}
                /\ \E w \in Workers :
                      /\ workers[w].pc = "save_insert"
                      /\ workers[w].job_id = row.job_id
          /\ jobs' = jobs
       \/ /\ results' = RowsOf(DOMAIN jobs')
          /\ DOMAIN jobs' \subseteq DOMAIN jobs
          /\ \A j \in DOMAIN jobs \ DOMAIN jobs' :
                jobs[j].document_id \notin DOMAIN documents']_vars

\* An attempt saved the first of two result kinds and died; a later
\* delivery of the job, alone on it now, finds that row and will add only
\* the missing kind.
C23_ResumedAfterPartialSave ==
    \E w \in Workers :
       LET f == workers[w] IN
       /\ f.pc = "save_check"
       /\ f.idx = 1
       /\ Len(f.extracted) = 2
       /\ ResultRows(f.job_id, f.extracted[1][1]) # {}
       /\ ResultRows(f.job_id, f.extracted[2][1]) = {}
       /\ \A v \in Workers \ {w} : workers[v].job_id # f.job_id
       /\ f.job_id \in DOMAIN jobs
       /\ jobs[f.job_id].retry_count = 0

---------------------------------------------------------------------------
\* C24: in every reachable state every job row references a stored document
\* and every result row references a stored job; a step that removes a
\* document removes all of its jobs and all of their results and nothing
\* else, also while a worker is executing a delivery of one of those jobs.
C24_NoOrphanRows ==
    /\ [](/\ \A j \in DOMAIN jobs : jobs[j].document_id \in DOMAIN documents
          /\ \A i \in DOMAIN results : results[i].job_id \in DOMAIN jobs)
    /\ [][DOMAIN documents' # DOMAIN documents
             => LET gone == DOMAIN documents \ DOMAIN documents'
                    kept == {j \in DOMAIN jobs : jobs[j].document_id \notin gone}
                IN /\ DOMAIN jobs' = kept
                   /\ \A j \in kept : jobs'[j] = jobs[j]
                   /\ results' = SelectSeq(results, LAMBDA r : r.job_id \in kept)]_vars

\* The document of a job was deleted while a delivery of the job was saving
\* results; the INSERT of the delivery was refused and no row of the job or
\* of its document is left.
C24_InsertAfterDeleteRefused ==
    \E w \in Workers :
       LET f == workers[w] IN
       /\ f.pc = "except_db"
       /\ f.exc = "IntegrityError"
       /\ f.job_id \notin DOMAIN jobs
       /\ documents = <<>>
       /\ results = <<>>

---------------------------------------------------------------------------
\* C25: when two deliveries of one job save the same (job_id, result_type)
\* at the same time, both calls of _save_result return without raising: the
\* INSERT step of a delivery whose job row is stored never raises, so no job
\* records the refused INSERT of one delivery as its failure, and no retry
\* is scheduled for it.
C25_ConcurrentSaveReturns ==
    /\ [][\A w \in Workers :
             (/\ workers[w].pc = "save_insert"
              /\ workers'[w] # workers[w]
              /\ workers[w].job_id \in DOMAIN jobs)
                => workers'[w].pc # "except_db"]_vars
    /\ [](\A j \in DOMAIN jobs : jobs[j].error_message # "IntegrityError")
    /\ [](\A w \in Workers :
             (workers[w].pc = "except_retry" /\ workers[w].job_id \in DOMAIN jobs)
                => workers[w].exc # "IntegrityError")

---------------------------------------------------------------------------
\* C26: completed is absorbing under at-least-once delivery: no step of a
\* delivery changes the status, completed_at, retry_count or error_message
\* of a job that reads completed.
C26_CompletedAbsorbing ==
    [][\A j \in DOMAIN jobs \cap DOMAIN jobs' :
          jobs[j].status = "completed"
             => /\ jobs'[j].status = "completed"
                /\ jobs'[j].completed_at = jobs[j].completed_at
                /\ jobs'[j].retry_count = jobs[j].retry_count
                /\ jobs'[j].error_message = jobs[j].error_message]_vars

\* C27: in the multi-part extractors (PDF pages, workbook sheets) a sub-unit
\* that fails is skipped: when the file opens and the download succeeds, an
\* extraction over a document with at least one sub-unit that yields content
\* does not raise and returns the content of every such sub-unit, and it
\* raises only when no sub-unit yields content.
YieldKinds == {"text", "table", "data"}

Returned(items) ==
    UNION { { items[n][2][k] : k \in 1..Len(items[n][2]) } :
              n \in { n \in 1..Len(items) : items[n][1] # "document_metadata" } }

C27_SubUnitFailureSkipped ==
    [][\A w \in Workers :
         LET f == workers[w]
             doc == documents[jobs[f.job_id].document_id]
             body == storage[doc.storage_key].body
             yielded == UnitsOf(body.units, YieldKinds)
         IN  ( /\ f.pc = "extract"
               /\ workers'[w] # f
               /\ f.job_id \in DOMAIN jobs
               /\ doc.mime_type \in PdfMimes \cup ExcelMimes
               /\ body.opens
               /\ workers'[w].exc # "Failed to download file" )
             => /\ yielded # <<>>
                   => /\ workers'[w].exc = None
                      /\ { yielded[k] : k \in 1..Len(yielded) }
                            \subseteq Returned(workers'[w].extracted)
                /\ workers'[w].exc = "extraction failed" => yielded = <<>>
      ]_vars

\* C28: every MIME type that upload validation can store on a document is
\* routed to an extractor: no extract_data job on a document that passes
\* validate_file fails with "Unsupported file type".
AsUploaded(doc) ==
    File(doc.original_filename.stem, doc.original_filename.ext,
         Bytes(doc.mime_type, Unreadable, doc.file_size))

C28_StoredTypesRouted ==
    \A j \in DOMAIN jobs :
        LET doc == documents[jobs[j].document_id] IN
        ( /\ jobs[j].job_type = "extract_data"
          /\ validate_file(AsUploaded(doc)) )
        => jobs[j].error_message # "Unsupported file type"

\* C29: every JobResult row has exactly one of result_data and
\* output_file_key populated; the rows extract_data_task writes have
\* result_data set and output_file_key NULL.
C29_ExactlyOnePopulated ==
    \A i \in 1..Len(results) :
        /\ (results[i].result_data # JsonNull) # (results[i].output_file_key # None)
        /\ results[i].result_data # JsonNull
        /\ results[i].output_file_key = None

\* A completed job whose rows, extracted text among them, are all in the table.
C29_InlineRowsOfCompletedJob ==
    \E j \in DOMAIN jobs :
        /\ jobs[j].status = "completed"
        /\ \E i \in 1..Len(results) :
              /\ results[i].job_id = j
              /\ results[i].result_type = "extracted_text"
              /\ results[i].result_data # JsonNull
              /\ results[i].output_file_key = None
        /\ \E i \in 1..Len(results) :
              /\ results[i].job_id = j
              /\ results[i].result_type = "document_metadata"

\* C30: deliveries for different jobs are independent: a step of
\* extract_data_task for job A changes no row of another job B and no
\* existing result row, removes no job, and creates at most one result row,
\* with job_id = A; also when A and B are jobs of the same document that run
\* on two workers at the same time.
C30_DeliveriesIndependent ==
    [][\A w \in Workers :
         workers'[w] # workers[w]
         => LET A == IF workers[w].pc = "idle" THEN workers'[w].job_id
                     ELSE workers[w].job_id
            IN  /\ DOMAIN jobs' = DOMAIN jobs
                /\ \A B \in DOMAIN jobs \ {A} : jobs'[B] = jobs[B]
                /\ Len(results') >= Len(results)
                /\ \A i \in 1..Len(results) : results'[i] = results[i]
                /\ Len(results') <= Len(results) + 1
                /\ Len(results') = Len(results) + 1
                      => results'[Len(results')].job_id = A
      ]_vars

\* Two jobs of the same document are in flight on the two workers at the
\* same time; one has saved a row and the other has failed and been written
\* failed.
C30_ParallelJobsOfOneDocument ==
    \E w1, w2 \in Workers :
        LET A == workers[w1].job_id
            B == workers[w2].job_id
        IN  /\ workers[w1].pc \notin {"idle", "start"}
            /\ workers[w2].pc = "except_retry"
            /\ A # B
            /\ A \in DOMAIN jobs
            /\ B \in DOMAIN jobs
            /\ jobs[A].document_id = jobs[B].document_id
            /\ jobs[B].status = "failed"
            /\ jobs[A].status = "processing"
            /\ \E i \in 1..Len(results) : results[i].job_id = A

\* C31: in every reachable state a job's completed_at is set exactly when
\* its status is completed, and a job that is processing or completed has
\* started_at set.
C31_TimestampsMatchStatus ==
    \A j \in DOMAIN jobs :
        /\ (jobs[j].completed_at # 0) <=> (jobs[j].status = "completed")
        /\ jobs[j].status \in {"processing", "completed"} => jobs[j].started_at # 0

\* C32: in every reachable state a completed job has no error recorded:
\* status = completed implies that error_message is empty.
C32_CompletedHasNoError ==
    \A j \in DOMAIN jobs :
        jobs[j].status = "completed" => jobs[j].error_message = None

C34_OneRowPerChecksum ==
    \A d1, d2 \in DOMAIN documents :
        documents[d1].checksum = documents[d2].checksum => d1 = d2

\* C35: the results of a job are readable through the API only when the job
\* is completed: for a job in any other status both get_job_results and
\* get_job_result_by_type, for every result kind, answer with an error.
ResultKinds == {"extracted_text", "extracted_tables", "document_metadata"}

C35_ResultsServedOnlyWhenCompleted ==
    \A j \in DOMAIN jobs :
        jobs[j].status # "completed"
        => /\ get_job_results_status(j) # 200
           /\ \A k \in ResultKinds : get_job_result_by_type_status(j, k) # 200

====
